---- MODULE Spec2Model ----
(***************************************************************************)
(* Task broadcasting bot (TelegramAssistant): the relational store of      *)
(* database.py, the administrator's session (context.user_data) and the    *)
(* handlers of bot.py that create tasks, fan them out and complete         *)
(* recipients from replies.                                                *)
(*                                                                         *)
(* Handlers run one at a time: the Application is built with the default   *)
(* settings (bot.py:46), so updates are processed sequentially, and the    *)
(* database sections of the reply handlers contain no await.  Each handler *)
(* is therefore one atomic action.                                         *)
(*                                                                         *)
(* The store is the file bot.db.  It outlives the process, and             *)
(* init_database only creates the tables that are missing                  *)
(* (CREATE TABLE IF NOT EXISTS), so a run starts from the rows the file    *)
(* already holds.  Init draws these rows from a bounded family in which    *)
(* every row has the status the schema gives it by default.                *)
(*                                                                         *)
(* Text is a sequence of one-character strings.  The literal markers of    *)
(* the messages are single tokens:                                         *)
(*   MarkNew    stands for the announcement prefix  (bot.py:930)           *)
(*   MarkBlock  stands for the task-block heading   (bot.py:588)           *)
(*   MarkRcpt   stands for the recipients heading   (bot.py:601)           *)
(***************************************************************************)
EXTENDS Integers, Sequences, FiniteSets, TLC

VARIABLES chats, chat_groups, group_chats, tasks, task_recipients,
          task_media, response_media, user_data, outcome

vars == <<chats, chat_groups, group_chats, tasks, task_recipients,
          task_media, response_media, user_data, outcome>>

store == <<chats, chat_groups, group_chats, tasks, task_recipients,
           task_media, response_media>>

----------------------------------------------------------------------------
(* Bounds of the model *)

\* the administrator starts a new task, and a fan-out creates one, only while
\* the tasks table holds fewer rows
MaxTasks == 1

\* chat identifiers of the model, with the title Telegram reports for each
ChatIds == {1, 2}

ChatTitle(c) == IF c = 1 THEN "A" ELSE IF c = 2 THEN "B" ELSE "C"

\* the title of a chat that was renamed
RenamedTitle == "Z"

\* titles Telegram can report for a chat
ChatTitles(c) == {ChatTitle(c), RenamedTitle}

\* names of chat groups
GroupNames == {"G", "H"}

\* task texts: plain, and with a trailing blank
Texts == { <<"a">>, <<"a", " ">> }

\* texts the administrator types
TypedTexts == { <<"a">> }

\* texts of the announcements a chat can reply to: also one in another case
AnnouncedTexts == Texts \cup { <<"A">> }

\* kinds of media a reply can carry
FileTypes == {"photo"}

MarkNew == "NEW:"
MarkBlock == "TASK#"
MarkRcpt == "RCPT:"

----------------------------------------------------------------------------
(* Text helpers: str.strip, str.startswith, str.split *)

Whitespace == {" ", "\n"}

RECURSIVE lstrip(_)
lstrip(s) ==
  IF s # <<>> /\ Head(s) \in Whitespace THEN lstrip(Tail(s)) ELSE s

RECURSIVE rstrip(_)
rstrip(s) ==
  IF s # <<>> /\ s[Len(s)] \in Whitespace
  THEN rstrip(SubSeq(s, 1, Len(s) - 1))
  ELSE s

strip(s) == rstrip(lstrip(s))

startswith(s, tok) == s # <<>> /\ Head(s) = tok

contains(s, tok) == \E i \in 1..Len(s) : s[i] = tok

FirstIndex(s, tok) ==
  CHOOSE i \in 1..Len(s) : s[i] = tok /\ \A j \in 1..(i - 1) : s[j] # tok

\* parts[1] of s.split(tok, 1), for s that contains tok
AfterFirst(s, tok) == SubSeq(s, FirstIndex(s, tok) + 1, Len(s))

RECURSIVE SplitLines(_)
SplitLines(s) ==
  IF contains(s, "\n")
  THEN <<SubSeq(s, 1, FirstIndex(s, "\n") - 1)>>
         \o SplitLines(AfterFirst(s, "\n"))
  ELSE <<s>>

RECURSIVE JoinLines(_)
JoinLines(ls) ==
  IF ls = <<>> THEN <<>>
  ELSE IF Len(ls) = 1 THEN ls[1]
  ELSE ls[1] \o <<"\n">> \o JoinLines(Tail(ls))

----------------------------------------------------------------------------
(* Messages the bot sends, and the extraction of the task text from them *)

\* send_task_to_chat: the announcement of a task
Announcement(text) == <<MarkNew, " ">> \o text

\* show_active_tasks: the block of one active task with one recipient line
TaskBlock(text) ==
  <<MarkBlock, "\n">> \o text \o <<"\n", "\n", MarkRcpt, "\n", "r", "\n",
                                   "\n", "c", "\n">>

\* a bot message that is no task (a menu, a report)
MenuMessage == <<"m">>

\* messages of the bot a chat can reply to; <<>> is a message without text
BotMessages ==
  {Announcement(t) : t \in AnnouncedTexts} \cup {TaskBlock(<<"a">>)}
    \cup {MenuMessage, <<>>}

\* the result of an extraction: the text, or a failure
Extracted(text) == [ok |-> TRUE, text |-> text]
ExtractionFailure == [ok |-> FALSE, text |-> <<>>]

\* handle_message: the text after the announcement prefix, stripped
extract_task_text(original_message) ==
  IF original_message = <<>> \/ ~startswith(original_message, MarkNew)
  THEN ExtractionFailure
  ELSE Extracted(strip(AfterFirst(original_message, MarkNew)))

\* the loop that skips the recipients heading and goes on
RECURSIVE BlockLines_NoBreak(_, _, _, _)
BlockLines_NoBreak(lines, i, found_task, task_lines) ==
  IF i > Len(lines) THEN task_lines
  ELSE IF found_task /\ strip(lines[i]) # <<>>
             /\ ~contains(lines[i], MarkBlock)
             /\ ~startswith(lines[i], MarkRcpt)
       THEN BlockLines_NoBreak(lines, i + 1, found_task,
                               Append(task_lines, strip(lines[i])))
  ELSE BlockLines_NoBreak(lines, i + 1,
                          found_task \/ contains(lines[i], MarkBlock),
                          task_lines)

\* handle_media_message: the loop over the lines of a task block
RECURSIVE BlockLines(_, _, _, _)
BlockLines(lines, i, found_task, task_lines) ==
  IF i > Len(lines) THEN task_lines
  ELSE IF contains(lines[i], MarkBlock)
       THEN BlockLines(lines, i + 1, TRUE, task_lines)
  ELSE IF found_task /\ strip(lines[i]) # <<>>
             /\ ~startswith(lines[i], MarkRcpt)
       THEN BlockLines(lines, i + 1, found_task,
                       Append(task_lines, strip(lines[i])))
  ELSE IF found_task /\ startswith(lines[i], MarkRcpt)
       THEN task_lines
  ELSE BlockLines(lines, i + 1, found_task, task_lines)

\* handle_media_message: both message shapes; an empty result is a failure
extract_task_text_media(original_message) ==
  LET task_text ==
        IF contains(original_message, MarkNew)
        THEN strip(AfterFirst(original_message, MarkNew))
        ELSE IF contains(original_message, MarkBlock)
        THEN JoinLines(BlockLines(SplitLines(original_message), 1, FALSE, <<>>))
        ELSE <<>>
  IN IF original_message = <<>> \/ task_text = <<>> THEN ExtractionFailure
     ELSE Extracted(task_text)

----------------------------------------------------------------------------
(* The store: rows of the tables of init_database *)

AdminId == 0

\* senders of updates: the administrator and somebody else
Users == {AdminId, AdminId + 1}

\* a check that lets every sender pass
is_admin_Anyone(user_id) == TRUE

\* update.effective_user.id != ADMIN_ID
is_admin(user_id) == user_id = AdminId

TaskIds == 1..Len(tasks)

TaskRow(text, created_at) ==
  [text |-> text, status |-> "active", created_by |-> AdminId,
   created_at |-> created_at]

\* group_id of a recipient that was not addressed through a group (NULL)
NoGroup == 0

RecipientRow(group_id) == [status |-> "pending", group_id |-> group_id]

ChatRow(title) == [title |-> title, is_group |-> TRUE]

\* rows of task_recipients of one task
RecipientsOf(recips, t) == {p \in DOMAIN recips : p[1] = t}

\* the query without its condition on the recipient's status
PendingTasksOf_AnyStatus(c) ==
  {t \in TaskIds : /\ <<t, c>> \in DOMAIN task_recipients
                   /\ tasks[t].status = "active"}

\* SELECT ... FROM tasks t JOIN task_recipients tr ON t.id = tr.task_id
\* WHERE tr.chat_id = ? AND t.status = 'active' AND tr.status != 'completed'
PendingTasksOf(c) ==
  {t \in TaskIds : /\ <<t, c>> \in DOMAIN task_recipients
                   /\ tasks[t].status = "active"
                   /\ task_recipients[<<t, c>>].status # "completed"}

\* the rows that can come first under ORDER BY t.created_at DESC
FirstByCreatedDesc(S) ==
  {t \in S : \A u \in S : tasks[u].created_at <= tasks[t].created_at}

\* handle_message: stored_text = task[1].strip(); stored_text == task_text
TextMatches(c, task_text) ==
  {t \in PendingTasksOf(c) : strip(tasks[t].text) = task_text}

\* handle_message: the first matching row of the ordered result
MatchingTask(c, task_text) == FirstByCreatedDesc(TextMatches(c, task_text))

\* the query without its condition on the text
MediaMatches_AnyText(c, task_text) == PendingTasksOf(c)

\* handle_media_message: ... AND t.text = ? ... ; fetchone() of an unordered result
MediaMatches(c, task_text) ==
  {t \in PendingTasksOf(c) : tasks[t].text = task_text}

\* the update without its task_id condition: every row of the chat
CompleteRecipient_EveryTask(recips, t, c) ==
  [p \in DOMAIN recips |->
     IF p[2] = c THEN [recips[p] EXCEPT !.status = "completed"]
     ELSE recips[p]]

\* the update that writes the row anew and resets the task's other rows
CompleteRecipient_ResetOthers(recips, t, c) ==
  [p \in DOMAIN recips |->
     IF p = <<t, c>> THEN [recips[p] EXCEPT !.status = "completed"]
     ELSE IF p[1] = t THEN [recips[p] EXCEPT !.status = "pending"]
     ELSE recips[p]]

\* the update without its chat_id condition: every row of the task
CompleteRecipient_WholeTask(recips, t, c) ==
  [p \in DOMAIN recips |->
     IF p[1] = t THEN [recips[p] EXCEPT !.status = "completed"]
     ELSE recips[p]]

\* UPDATE task_recipients SET status = 'completed' WHERE task_id = ? AND chat_id = ?
CompleteRecipient(recips, t, c) ==
  [p \in DOMAIN recips |->
     IF p = <<t, c>> THEN [recips[p] EXCEPT !.status = "completed"]
     ELSE recips[p]]

\* SELECT COUNT(*), SUM(CASE WHEN status = 'completed' ...) WHERE task_id = ?
CountTotal(recips, t) == Cardinality(RecipientsOf(recips, t))

CountCompleted(recips, t) ==
  Cardinality({p \in RecipientsOf(recips, t) : recips[p].status = "completed"})

\* the comparison that is content with one completed recipient
AllCompleted_AnyCompleted(recips, t) == CountCompleted(recips, t) >= 1

AllCompleted(recips, t) == CountTotal(recips, t) = CountCompleted(recips, t)

\* the recount applied to every task: equal counts, zero rows included
RecountTask_EveryTask(tsk, recips, t) ==
  [u \in DOMAIN tsk |->
     IF CountTotal(recips, u) = CountCompleted(recips, u)
     THEN [tsk[u] EXCEPT !.status = "completed"]
     ELSE tsk[u]]

\* UPDATE tasks SET status = 'completed' WHERE id = ?, when all are completed
RecountTask(tsk, recips, t) ==
  IF AllCompleted(recips, t)
  THEN [i \in DOMAIN tsk |->
          IF i = t THEN [tsk[i] EXCEPT !.status = "completed"] ELSE tsk[i]]
  ELSE tsk

----------------------------------------------------------------------------
(* Replies *)

ReplyOutcome(handler, result, c, text, t) ==
  [handler |-> handler, result |-> result, chat |-> c, text |-> text,
   task |-> t]

\* a message that is no task: the answer names neither a chat nor a task
BadFormat(handler, original_message) ==
  [handler |-> handler, result |-> "bad_format", chat |-> 0, text |-> <<>>,
   task |-> 0, message |-> original_message]

\* handle_message, reply branch: a text reply of chat c to a bot message
handle_message_reply(c, original_message) ==
  LET extracted == extract_task_text(original_message)
      task_text == extracted.text
  IN
  /\ UNCHANGED <<chats, chat_groups, group_chats, task_media, response_media, user_data>>
  /\ IF ~extracted.ok
     THEN /\ outcome' = BadFormat("handle_message", original_message)
          /\ UNCHANGED <<tasks, task_recipients>>
     ELSE IF c \notin DOMAIN chats
     THEN /\ outcome' = ReplyOutcome("handle_message", "unregistered", c, task_text, 0)
          /\ UNCHANGED <<tasks, task_recipients>>
     ELSE IF MatchingTask(c, task_text) = {}
     THEN /\ outcome' = ReplyOutcome("handle_message", "not_found", c, task_text, 0)
          /\ UNCHANGED <<tasks, task_recipients>>
     ELSE \E t \in MatchingTask(c, task_text) :
            /\ task_recipients' = CompleteRecipient(task_recipients, t, c)
            /\ tasks' = RecountTask(tasks, task_recipients', t)
            /\ outcome' = ReplyOutcome("handle_message", "accepted", c, task_text, t)

\* handle_media_message, reply branch: a photo or document sent as a reply
handle_media_message_reply(c, original_message, file_type) ==
  LET extracted == extract_task_text_media(original_message)
      task_text == extracted.text
  IN
  /\ UNCHANGED <<chats, chat_groups, group_chats, task_media, user_data>>
  /\ IF ~extracted.ok
     THEN /\ outcome' = BadFormat("handle_media_message", original_message)
          /\ UNCHANGED <<tasks, task_recipients, response_media>>
     ELSE IF MediaMatches(c, task_text) = {}
     THEN /\ outcome' = ReplyOutcome("handle_media_message", "not_found", c, task_text, 0)
          /\ UNCHANGED <<tasks, task_recipients, response_media>>
     ELSE \E t \in MediaMatches(c, task_text) :
            /\ response_media' = response_media \cup {<<t, c, file_type>>}
            /\ task_recipients' = CompleteRecipient(task_recipients, t, c)
            /\ tasks' = RecountTask(tasks, task_recipients', t)
            /\ outcome' = ReplyOutcome("handle_media_message", "accepted", c, task_text, t)

\* the statements of the completion sequence, in order; the media handler
\* begins with the insert into response_media
CompletionStatements(handler) ==
  IF handler = "handle_media_message"
  THEN <<"insert_media", "update_recipient", "recount", "update_task">>
  ELSE <<"update_recipient", "recount", "update_task">>

\* the rows as the open transaction sees them after the first k statements
CompletionWork(handler, k, t, c, file_type) ==
  LET done == {CompletionStatements(handler)[i] : i \in 1..k}
      recips == IF "update_recipient" \in done
                THEN CompleteRecipient(task_recipients, t, c)
                ELSE task_recipients
  IN [tasks |-> IF "update_task" \in done
                THEN RecountTask(tasks, recips, t) ELSE tasks,
      task_recipients |-> recips,
      response_media |-> IF "insert_media" \in done
                         THEN response_media \cup {<<t, c, file_type>>}
                         ELSE response_media]

\* a rollback that makes the writes of the transaction permanent
Rollback_KeepsWork(before, work) == work

\* conn.rollback(): the rows are those before the transaction
Rollback(before, work) == before

\* the answer after an exception in the completion sequence
FailedOutcome(handler, c, text, t, k) ==
  [handler |-> handler, result |-> "error", chat |-> c, text |-> text,
   task |-> t, failed_at |-> CompletionStatements(handler)[k]]

\* a reply whose completion sequence raises at its k-th statement
CompletionFails(handler, c, task_text, t, k, file_type) ==
  LET before == [tasks |-> tasks, task_recipients |-> task_recipients,
                 response_media |-> response_media]
      after == Rollback(before,
                        CompletionWork(handler, k - 1, t, c, file_type))
  IN /\ tasks' = after.tasks
     /\ task_recipients' = after.task_recipients
     /\ response_media' = after.response_media
     /\ outcome' = FailedOutcome(handler, c, task_text, t, k)
     /\ UNCHANGED <<chats, chat_groups, group_chats, task_media, user_data>>

\* handle_message, reply branch: sqlite raises in the completion sequence
handle_message_reply_fails(c, original_message) ==
  LET extracted == extract_task_text(original_message) IN
  /\ extracted.ok
  /\ c \in DOMAIN chats
  /\ \E t \in MatchingTask(c, extracted.text) :
       \E k \in 1..Len(CompletionStatements("handle_message")) :
         CompletionFails("handle_message", c, extracted.text, t, k, "")

\* handle_media_message, reply branch: sqlite raises in the sequence
handle_media_message_reply_fails(c, original_message, file_type) ==
  LET extracted == extract_task_text_media(original_message) IN
  /\ extracted.ok
  /\ \E t \in MediaMatches(c, extracted.text) :
       \E k \in 1..Len(CompletionStatements("handle_media_message")) :
         CompletionFails("handle_media_message", c, extracted.text, t, k,
                         file_type)

\* the task_recipients table has no column named id (database.py:63-74)
TaskRecipientsHasIdColumn == FALSE

\* Database.update_task_status(task_id, chat_id): its SELECT names tr.id
update_task_status(t, c) ==
  /\ UNCHANGED <<chats, chat_groups, group_chats, task_media, response_media, user_data>>
  /\ IF ~TaskRecipientsHasIdColumn
     THEN \* OperationalError: rollback, and the exception is raised again
          /\ outcome' = ReplyOutcome("update_task_status", "error", c, <<>>, t)
          /\ UNCHANGED <<tasks, task_recipients>>
     ELSE IF ~(/\ t \in TaskIds
               /\ <<t, c>> \in DOMAIN task_recipients
               /\ tasks[t].status = "active"
               /\ task_recipients[<<t, c>>].status # "completed")
     THEN \* logged, rolled back, returns None
          /\ outcome' = ReplyOutcome("update_task_status", "returned", c, <<>>, t)
          /\ UNCHANGED <<tasks, task_recipients>>
     ELSE /\ task_recipients' = CompleteRecipient(task_recipients, t, c)
          /\ tasks' = RecountTask(tasks, task_recipients', t)
          /\ outcome' = ReplyOutcome("update_task_status", "returned", c, <<>>, t)

----------------------------------------------------------------------------
(* The administrator's session: context.user_data *)

\* the dict as the set of its keys and their values; the value of an absent
\* key is the empty value of its type
EmptyUserData ==
  [keys |-> {}, state |-> "", task_text |-> <<>>, media_files |-> <<>>,
   selection_type |-> "", selected_titles |-> {},
   current_group_id |-> 0, selected_chats |-> <<>>,
   navigation_history |-> <<>>]

\* states in which handle_message hands the text to a step handler
RoutedStates ==
  {"awaiting_task_text", "choosing_recipient_type", "selecting_recipients",
   "creating_chat_group", "adding_chats_to_group"}

HistoryLimit == 10

\* a history that keeps its first entries and drops the new ones
add_to_history_KeepsOldest(ud, state) ==
  IF ud.keys = {} THEN ud
  ELSE LET h0 == ud.navigation_history
           h1 == IF h0 = <<>> \/ h0[Len(h0)] # state THEN Append(h0, state)
                 ELSE h0
           h2 == IF Len(h1) > HistoryLimit THEN SubSeq(h1, 1, HistoryLimit)
                 ELSE h1
       IN [ud EXCEPT !.navigation_history = h2,
                     !.keys = @ \cup {"navigation_history"}]

\* NavigationManager.add_to_history
add_to_history(ud, state) ==
  IF ud.keys = {} THEN ud
  ELSE LET h0 == ud.navigation_history
           h1 == IF h0 = <<>> \/ h0[Len(h0)] # state THEN Append(h0, state)
                 ELSE h0
           h2 == IF Len(h1) > HistoryLimit
                 THEN SubSeq(h1, Len(h1) - HistoryLimit + 1, Len(h1))
                 ELSE h1
       IN [ud EXCEPT !.navigation_history = h2,
                     !.keys = @ \cup {"navigation_history"}]

AdminOutcome(handler, result) == [handler |-> handler, result |-> result]

SenderOutcome(handler, result, user_id) ==
  [handler |-> handler, result |-> result, sender |-> user_id]

\* handle_message: a text that is no reply to the bot, from a sender who is
\* not the administrator
handle_message_not_admin(user_id) ==
  /\ ~is_admin(user_id)
  /\ outcome' = SenderOutcome("handle_message_text", "ignored", user_id)
  /\ UNCHANGED <<store, user_data>>

\* handle_media_message: a file that is no reply to the bot, from a sender
\* who is not the administrator
handle_media_message_not_admin(user_id) ==
  /\ ~is_admin(user_id)
  /\ outcome' = SenderOutcome("handle_media_message_file", "ignored", user_id)
  /\ UNCHANGED <<store, user_data>>

\* start_command: /start of any sender shows the main menu
start_command(user_id) ==
  /\ outcome' = SenderOutcome("start_command", "main_menu", user_id)
  /\ UNCHANGED <<store, user_data>>

\* handle_message, main menu: the button that starts a new task
menu_new_task ==
  /\ user_data.state \notin RoutedStates
  /\ Len(tasks) < MaxTasks
  /\ user_data' = add_to_history(
                    [user_data EXCEPT !.state = "awaiting_task_text",
                                      !.keys = @ \cup {"state"}],
                    "awaiting_task_text")
  /\ outcome' = AdminOutcome("start_new_task", "ask_text")
  /\ UNCHANGED store

\* handle_message, main menu: the text "Главное меню" drops the whole session
\* and starts a new history
menu_main_menu ==
  /\ user_data.state \notin RoutedStates
  /\ user_data' = add_to_history(
                    [EmptyUserData EXCEPT !.state = "main_menu",
                                          !.keys = {"state"}],
                    "main_menu")
  /\ outcome' = AdminOutcome("handle_message_main_menu", "main_menu")
  /\ UNCHANGED store

\* Database.get_active_tasks: the rows of the query, grouped by task; the
\* query joins tasks with task_recipients and chats
get_active_tasks ==
  LET joined == {p \in DOMAIN task_recipients :
                   /\ p[1] \in TaskIds
                   /\ p[2] \in DOMAIN chats
                   /\ tasks[p[1]].status = "active"}
  IN [t \in {p[1] : p \in joined} |->
        [text |-> tasks[t].text,
         created_at |-> tasks[t].created_at,
         recipients |->
           [c \in {p[2] : p \in {q \in joined : q[1] = t}} |->
              [chat_title |-> chats[c].title,
               status |-> task_recipients[<<t, c>>].status]]]]

\* handle_message, main menu: the button that lists the active tasks
show_active_tasks ==
  /\ user_data.state \notin RoutedStates
  /\ user_data' = add_to_history(
                    [user_data EXCEPT !.state = "viewing_tasks",
                                      !.keys = @ \cup {"state"}],
                    "viewing_tasks")
  /\ outcome' = [handler |-> "show_active_tasks", result |-> "shown",
                 tasks |-> get_active_tasks]
  /\ UNCHANGED store

\* handle_task_text: a typed task text
handle_task_text(message_text) ==
  /\ user_data.state = "awaiting_task_text"
  /\ user_data' = [user_data EXCEPT !.task_text = message_text,
                                    !.keys = @ \cup {"task_text"}]
  /\ outcome' = AdminOutcome("handle_task_text", "text_saved")
  /\ UNCHANGED store

\* handle_task_text: the button that goes on to the recipients
handle_task_text_choose ==
  /\ user_data.state = "awaiting_task_text"
  /\ IF "task_text" \in user_data.keys
     THEN /\ user_data' = [user_data EXCEPT !.state = "choosing_recipient_type"]
          /\ outcome' = AdminOutcome("handle_task_text", "ask_type")
     ELSE /\ user_data' = user_data
          /\ outcome' = AdminOutcome("handle_task_text", "text_first")
  /\ UNCHANGED store

\* handle_recipient_type: groups or single chats
handle_recipient_type(choice) ==
  /\ user_data.state = "choosing_recipient_type"
  /\ LET available == IF choice = "group" THEN chat_groups # <<>>
                      ELSE DOMAIN chats # {}
     IN IF available
        THEN /\ user_data' =
                  [user_data EXCEPT !.selection_type = choice,
                                    !.state = "selecting_recipients",
                                    !.selected_titles = {},
                                    !.keys = @ \cup {"selection_type",
                                                     "selected_titles"}]
             /\ outcome' = AdminOutcome("handle_recipient_type", "ask_selection")
        ELSE /\ user_data' = user_data
             /\ outcome' = AdminOutcome("handle_recipient_type", "nothing_to_select")
  /\ UNCHANGED store

\* handle_media_message, no reply: the administrator attaches a file to the
\* task that is being written, one file of a kind
handle_media_message_attach(file_type) ==
  /\ user_data.state = "awaiting_task_text"
  /\ \A i \in 1..Len(user_data.media_files) :
       user_data.media_files[i] # file_type
  /\ user_data' = [user_data EXCEPT !.media_files = Append(@, file_type),
                                    !.keys = @ \cup {"media_files"}]
  /\ outcome' = AdminOutcome("handle_media_message_attach", "file_attached")
  /\ UNCHANGED store

\* the entries of the selection keyboard
KeyboardTitles ==
  IF user_data.selection_type = "group"
  THEN {chat_groups[g] : g \in 1..Len(chat_groups)}
  ELSE {chats[c].title : c \in DOMAIN chats}

\* the check mark and the empty box in front of a keyboard entry
MarkSelected == "[x]"
MarkEmpty == "[ ]"

\* handle_recipient_selection: the keyboard sent after a press; the pressed
\* entry gets new_state, every other entry the mark of its membership
RecipientKeyboard(title, new_state, selected_titles) ==
  [name \in KeyboardTitles |->
     IF name = title THEN new_state
     ELSE IF name \in selected_titles THEN MarkSelected ELSE MarkEmpty]

\* handle_recipient_selection: a press on an entry of the selection keyboard
handle_recipient_selection_toggle(title) ==
  /\ user_data.state = "selecting_recipients"
  /\ title \in KeyboardTitles
  /\ LET new_state == IF title \in user_data.selected_titles
                      THEN MarkEmpty ELSE MarkSelected
     IN /\ user_data' =
             [user_data EXCEPT
                !.selected_titles =
                  IF title \in @ THEN @ \ {title} ELSE @ \cup {title},
                !.keys = @ \cup {"selected_titles"}]
        /\ outcome' =
             [handler |-> "handle_recipient_selection", result |-> "toggled",
              title |-> title,
              keyboard |-> RecipientKeyboard(title, new_state,
                                             user_data'.selected_titles)]
  /\ UNCHANGED store

----------------------------------------------------------------------------
(* Fan-out *)

Perms(S) ==
  {f \in [1..Cardinality(S) -> S] : \A i, j \in 1..Cardinality(S) :
                                       f[i] = f[j] => i = j}

GroupIds == 1..Len(chat_groups)

\* a query that takes every chat for a member
get_group_chats_EveryChat(group_id) == DOMAIN chats

\* Database.get_group_chats: chats c JOIN group_chats gc WHERE gc.group_id = ?
get_group_chats(group_id) ==
  {c \in DOMAIN chats : <<group_id, c>> \in group_chats}

\* the (chat, group) pairs of the selected groups
GroupTargets ==
  {<<c, g>> \in ChatIds \X GroupIds :
     chat_groups[g] \in user_data.selected_titles /\ c \in get_group_chats(g)}

\* orders in which the loops over the selected groups and their chats can run
GroupPlans ==
  {f \in Perms(GroupTargets) :
     \A i, j, k \in 1..Len(f) :
        (i < j /\ j < k /\ f[i][2] = f[k][2]) => f[j][2] = f[i][2]}

\* one chat for each selected title: chat[0] of SELECT chat_id FROM chats WHERE title = ?
ChatPicks ==
  {P \in SUBSET DOMAIN chats :
     /\ \A c \in P : chats[c].title \in user_data.selected_titles
     /\ \A c, d \in P : chats[c].title = chats[d].title => c = d
     /\ \A ti \in user_data.selected_titles :
          (\E c \in DOMAIN chats : chats[c].title = ti)
             => \E c \in P : chats[c].title = ti}

ChatPlans ==
  UNION {Perms({<<c, NoGroup>> : c \in P}) : P \in ChatPicks}

Plans == IF user_data.selection_type = "group" THEN GroupPlans ELSE ChatPlans

\* handle_recipient_selection: the first n files of the task, one INSERT
\* INTO task_media each, every one committed on a connection of its own
insert_task_media(media, task_id, files, n) ==
  media \o [i \in 1..n |-> [task_id |-> task_id, file_type |-> files[i]]]

\* Database.create_task: the INSERT
create_task(tsk, text, created_at) == Append(tsk, TaskRow(text, created_at))

\* Database.create_task: the value of SELECT last_insert_rowid(), which
\* execute_query runs on a connection of its own, where nothing was inserted
create_task_result(tsk) == 0

\* Database.add_task_recipient: PRIMARY KEY (task_id, chat_id)
add_task_recipient_raises(recips, task_id, chat_id) ==
  <<task_id, chat_id>> \in DOMAIN recips

\* Database.add_task_recipient: the INSERT
add_task_recipient(recips, task_id, chat_id, group_id) ==
  [p \in DOMAIN recips \cup {<<task_id, chat_id>>} |->
     IF p = <<task_id, chat_id>> THEN RecipientRow(group_id) ELSE recips[p]]

\* a send that registers the chat although a file was not delivered
send_result_TextDelivered(failed, late, i) == i \in failed \ late

\* send_task_to_chat: False when get_chat, send_message or the send of a
\* file raises; i in late is a send whose text arrived and whose file failed
send_result(failed, late, i) == i \in failed

\* handle_recipient_selection: the loop over the resolved chats; send i
\* returns False for i in failed, for i in late after the text was
\* delivered; an exception of add_task_recipient ends the loop
RECURSIVE Deliver(_, _, _, _, _, _)
Deliver(plan, i, failed, late, task_id, acc) ==
  IF i > Len(plan) THEN acc
  ELSE LET chat_id == plan[i][1]
           tried == [acc EXCEPT !.total_count = @ + 1,
                                !.attempted = Append(@, chat_id),
                                !.announced =
                                   IF i \in failed \ late THEN @
                                   ELSE Append(@, chat_id)]
           sent == [tried EXCEPT !.success_count = @ + 1,
                                 !.delivered = Append(@, chat_id)]
       IN IF send_result(failed, late, i)
          THEN Deliver(plan, i + 1, failed, late, task_id, tried)
          ELSE IF add_task_recipient_raises(sent.recips, task_id, chat_id)
          THEN [sent EXCEPT !.raised = TRUE]
          ELSE Deliver(plan, i + 1, failed, late, task_id,
                       [sent EXCEPT !.recips =
                          add_task_recipient(@, task_id, chat_id, plan[i][2])])

SeqToSet(s) == {s[i] : i \in 1..Len(s)}

HasDuplicates(s) == \E i, j \in 1..Len(s) : i # j /\ s[i] = s[j]

FanOutOutcome(result, task_id, plan, r) ==
  [handler |-> "handle_recipient_selection", result |-> result,
   task_id |-> task_id, task_text |-> user_data.task_text,
   selection_type |-> user_data.selection_type,
   selected_titles |-> user_data.selected_titles,
   resolved |-> {plan[i][1] : i \in 1..Len(plan)},
   attempted |-> SeqToSet(r.attempted),
   announced |-> SeqToSet(r.announced),
   delivered |-> SeqToSet(r.delivered),
   sent_twice |-> HasDuplicates(r.attempted),
   success_count |-> r.success_count, total_count |-> r.total_count]

\* the creation times a new row can get: CURRENT_TIMESTAMP counts seconds
NextCreatedAt ==
  LET last == IF tasks = <<>> THEN 0 ELSE tasks[Len(tasks)].created_at
  IN {last, last + 1} \ {0}

\* a check that finds a text in every session
no_task_text_Never(ud) == FALSE

\* task_text = context.user_data.get('task_text'); if not task_text
no_task_text(ud) == ud.task_text = <<>>

\* the sends that can fail after their text was delivered: those of a task
\* with files
LateFailures(failed) ==
  IF user_data.media_files = <<>> THEN {{}} ELSE SUBSET failed

\* handle_recipient_selection: the confirm button
handle_recipient_selection_confirm ==
  /\ user_data.state = "selecting_recipients"
  /\ UNCHANGED <<chats, chat_groups, group_chats, response_media>>
  /\ IF no_task_text(user_data)
     THEN /\ outcome' = AdminOutcome("handle_recipient_selection", "no_text")
          /\ UNCHANGED <<tasks, task_recipients, task_media, user_data>>
     ELSE /\ Len(tasks) < MaxTasks
          /\ \E created_at \in NextCreatedAt, plan \in Plans :
               \E failed \in SUBSET (1..Len(plan)),
                  media_failed \in 0..Len(user_data.media_files) :
                \E late \in LateFailures(failed) :
                 LET task_id == create_task_result(tasks')
                     acc == [recips |-> task_recipients, raised |-> FALSE,
                             success_count |-> 0, total_count |-> 0,
                             attempted |-> <<>>, announced |-> <<>>,
                             delivered |-> <<>>]
                     r == Deliver(plan, 1, failed, late, task_id, acc)
                 IN /\ tasks' = create_task(tasks, user_data.task_text, created_at)
                    /\ IF media_failed > 0
                       THEN \* an insert into task_media raises
                            /\ task_media' = insert_task_media(
                                                task_media, task_id,
                                                user_data.media_files,
                                                media_failed - 1)
                            /\ task_recipients' = task_recipients
                            /\ outcome' = FanOutOutcome("media_error", task_id,
                                                        <<>>, acc)
                            /\ user_data' = user_data
                       ELSE /\ task_media' = insert_task_media(
                                                task_media, task_id,
                                                user_data.media_files,
                                                Len(user_data.media_files))
                            /\ task_recipients' = r.recips
                            /\ IF r.raised
                               THEN /\ outcome' = FanOutOutcome("error", task_id,
                                                                plan, r)
                                    /\ user_data' = user_data
                               ELSE /\ outcome' = FanOutOutcome("report", task_id,
                                                                plan, r)
                                    /\ user_data' = EmptyUserData

AddChatOutcome(result, user_id, c) ==
  [handler |-> "add_chat_command", result |-> result, sender |-> user_id,
   chat |-> c]

\* a lookup that finds no row
chat_exists_Never(rows, c) == FALSE

\* SELECT chat_id FROM chats WHERE chat_id = ?
chat_exists(rows, c) == c \in DOMAIN rows

\* the chats table with the row of chat c written
insert_chat(rows, c, title) ==
  [d \in DOMAIN rows \cup {c} |-> IF d = c THEN ChatRow(title) ELSE rows[d]]

\* add_chat_command: /addchat sent by user_id in chat c, which has the title
add_chat_command(user_id, c, title) ==
  /\ IF ~is_admin(user_id)
     THEN /\ chats' = chats
          /\ outcome' = AddChatOutcome("ignored", user_id, c)
     ELSE IF chat_exists(chats, c)
     THEN /\ chats' = chats
          /\ outcome' = AddChatOutcome("already_added", user_id, c)
     ELSE /\ chats' = insert_chat(chats, c, title)
          /\ outcome' = AddChatOutcome("added", user_id, c)
  /\ UNCHANGED <<chat_groups, group_chats, tasks, task_recipients,
                 task_media, response_media, user_data>>

----------------------------------------------------------------------------
(* Chat groups *)

\* names the administrator types for a new group
TypedGroupNames == {"g"}

\* handle_message, main menu: the button that creates a chat group, and
\* start_create_chat_group
start_create_chat_group ==
  /\ user_data.state \notin RoutedStates
  /\ user_data' = add_to_history(
                    [user_data EXCEPT !.state = "creating_chat_group",
                                      !.keys = @ \cup {"state"}],
                    "creating_chat_group")
  /\ outcome' = AdminOutcome("start_create_chat_group", "ask_name")
  /\ UNCHANGED store

LowerCase(name) == IF name = "G" THEN "g" ELSE IF name = "H" THEN "h" ELSE name

\* a lookup that takes no notice of the case of the letters
name_exists_IgnoreCase(groups, group_name) ==
  \E g \in 1..Len(groups) : LowerCase(groups[g]) = LowerCase(group_name)

\* SELECT id FROM chat_groups WHERE name = ?
name_exists(groups, group_name) ==
  \E g \in 1..Len(groups) : groups[g] = group_name

\* handle_group_name: the value of SELECT last_insert_rowid(), which
\* execute_query runs on a connection of its own, where nothing was inserted
last_insert_rowid(groups) == 0

GroupOutcome(handler, result, group_name, group_id, selected) ==
  [handler |-> handler, result |-> result, group_name |-> group_name,
   group_id |-> group_id, selected |-> selected]

\* handle_group_name: the typed name of the new group
handle_group_name(group_name) ==
  /\ user_data.state = "creating_chat_group"
  /\ UNCHANGED <<chats, group_chats, tasks, task_recipients, task_media,
                 response_media>>
  /\ IF name_exists(chat_groups, group_name)
     THEN /\ outcome' = GroupOutcome("handle_group_name", "duplicate_name",
                                     group_name, 0, {})
          /\ UNCHANGED <<chat_groups, user_data>>
     ELSE /\ chat_groups' = Append(chat_groups, group_name)
          /\ user_data' =
               [user_data EXCEPT !.current_group_id =
                                   last_insert_rowid(chat_groups'),
                                 !.state = "adding_chats_to_group",
                                 !.keys = @ \cup {"current_group_id"}]
          /\ outcome' = GroupOutcome("handle_group_name",
                                     IF DOMAIN chats = {} THEN "no_chats"
                                     ELSE "created",
                                     group_name, user_data'.current_group_id, {})

\* a check that lets every group id pass
group_id_missing_Never(group_id) == FALSE

\* handle_chat_selection_for_group: if not group_id
group_id_missing(group_id) == group_id = 0

\* selected_chats.remove(chat_id) / selected_chats.append(chat_id)
ToggleChat(selected_chats, chat_id) ==
  IF \E i \in 1..Len(selected_chats) : selected_chats[i] = chat_id
  THEN SelectSeq(selected_chats, LAMBDA d : d # chat_id)
  ELSE Append(selected_chats, chat_id)

\* handle_chat_selection_for_group: the keyboard sent after a press, one
\* entry for each chat; a selected chat gets new_state, the mark of the press
ChatKeyboard(new_state, selected_chats) ==
  [c \in DOMAIN chats |->
     IF c \in SeqToSet(selected_chats) THEN new_state ELSE MarkEmpty]

\* handle_chat_selection_for_group: a press on a chat of the keyboard
handle_chat_selection_for_group_toggle(title) ==
  /\ user_data.state = "adding_chats_to_group"
  /\ UNCHANGED store
  /\ IF group_id_missing(user_data.current_group_id)
     THEN /\ outcome' = GroupOutcome("handle_chat_selection_for_group",
                                     "group_not_found", "",
                                     user_data.current_group_id, {})
          /\ user_data' = user_data
     ELSE IF ~\E c \in DOMAIN chats : chats[c].title = title
     THEN /\ outcome' = GroupOutcome("handle_chat_selection_for_group",
                                     "chat_not_found", "",
                                     user_data.current_group_id,
                                     SeqToSet(user_data.selected_chats))
          /\ user_data' = user_data
     ELSE \E chat_id \in {c \in DOMAIN chats : chats[c].title = title} :
            /\ user_data' =
                 [user_data EXCEPT !.selected_chats = ToggleChat(@, chat_id),
                                   !.keys = @ \cup {"selected_chats"}]
            /\ outcome' =
                 [handler |-> "handle_chat_selection_for_group",
                  result |-> "toggled", group_name |-> "",
                  group_id |-> user_data.current_group_id,
                  selected |-> SeqToSet(user_data'.selected_chats),
                  chat_id |-> chat_id,
                  keyboard |->
                    ChatKeyboard(
                      IF chat_id \in SeqToSet(user_data.selected_chats)
                      THEN MarkEmpty ELSE MarkSelected,
                      user_data'.selected_chats)]

\* an insert that raises when the pair is there already
add_group_chat_raises_OnConflict(rows, group_id, chat_id) ==
  <<group_id, chat_id>> \in rows

\* INSERT OR IGNORE INTO group_chats: a conflict with the primary key
\* (group_id, chat_id) is ignored
add_group_chat_raises(rows, group_id, chat_id) == FALSE

\* INSERT OR IGNORE INTO group_chats (group_id, chat_id) VALUES (?, ?); the
\* connection does not enable foreign keys
add_group_chat(rows, group_id, chat_id) == rows \cup {<<group_id, chat_id>>}

\* handle_chat_selection_for_group: the loop over the selected chats, every
\* insert committed on a connection of its own
RECURSIVE AddSelected(_, _, _, _)
AddSelected(rows, group_id, selected_chats, i) ==
  IF i > Len(selected_chats) THEN [rows |-> rows, raised |-> FALSE]
  ELSE IF add_group_chat_raises(rows, group_id, selected_chats[i])
  THEN [rows |-> rows, raised |-> TRUE]
  ELSE AddSelected(add_group_chat(rows, group_id, selected_chats[i]),
                   group_id, selected_chats, i + 1)

\* the answer after the inserts, with the selected chats that were members
\* of the group before
FilledOutcome(result, group_id, selected) ==
  [handler |-> "handle_chat_selection_for_group", result |-> result,
   group_name |-> "", group_id |-> group_id, selected |-> selected,
   members_before |-> {c \in selected : <<group_id, c>> \in group_chats}]

\* handle_chat_selection_for_group: the button that ends the selection
handle_chat_selection_for_group_finish ==
  /\ user_data.state = "adding_chats_to_group"
  /\ UNCHANGED <<chats, chat_groups, tasks, task_recipients, task_media,
                 response_media>>
  /\ LET group_id == user_data.current_group_id
         selected == SeqToSet(user_data.selected_chats)
         r == AddSelected(group_chats, group_id, user_data.selected_chats, 1)
     IN IF group_id_missing(group_id)
        THEN /\ outcome' = GroupOutcome("handle_chat_selection_for_group",
                                        "group_not_found", "", group_id, {})
             /\ UNCHANGED <<group_chats, user_data>>
        ELSE IF user_data.selected_chats = <<>>
        THEN /\ outcome' = GroupOutcome("handle_chat_selection_for_group",
                                        "nothing_selected", "", group_id, {})
             /\ UNCHANGED <<group_chats, user_data>>
        ELSE /\ group_chats' = r.rows
             /\ IF r.raised
                THEN /\ outcome' = FilledOutcome("error", group_id, selected)
                     /\ user_data' = user_data
                ELSE /\ outcome' = FilledOutcome("filled", group_id, selected)
                     /\ user_data' = EmptyUserData

----------------------------------------------------------------------------
(* The Back button *)

\* the administrator presses Back only while the history holds fewer entries
MaxHistory == 2

\* a previous-state relation in which the task text step leads back into the
\* recipient selection
get_previous_state_Loop(current_state) ==
  CASE current_state = "awaiting_task_text" -> "selecting_recipients"
    [] current_state = "choosing_recipient_type" -> "awaiting_task_text"
    [] current_state = "selecting_recipients" -> "choosing_recipient_type"
    [] OTHER -> "main_menu"

\* NavigationManager.get_previous_state
get_previous_state(current_state) ==
  CASE current_state = "awaiting_task_text" -> "main_menu"
    [] current_state = "choosing_recipient_type" -> "awaiting_task_text"
    [] current_state = "selecting_recipients" -> "choosing_recipient_type"
    [] current_state = "creating_chat_group" -> "main_menu"
    [] current_state = "adding_chats_to_group" -> "creating_chat_group"
    [] current_state \in {"settings", "statistics", "viewing_tasks",
                          "viewing_chats"} -> "main_menu"
    [] OTHER -> "main_menu"

\* a clearing that keeps nothing, as dict.clear() does
clear_user_state_KeepsNothing(ud) == EmptyUserData

\* NavigationManager.clear_user_state
clear_user_state(ud) ==
  IF ud.keys = {} THEN ud
  ELSE [EmptyUserData EXCEPT
          !.keys = ud.keys \cap {"navigation_history", "state"},
          !.state = ud.state,
          !.navigation_history = ud.navigation_history]

\* the screen handle_back_button shows for the state it goes back to
BackScreen(previous_state) ==
  IF previous_state \in {"settings", "viewing_tasks", "viewing_chats",
                         "creating_chat_group"}
  THEN previous_state
  ELSE IF previous_state = "adding_chats_to_group" THEN "creating_chat_group"
  ELSE "main_menu"

BackOutcome(result, from, screen) ==
  [handler |-> "handle_back_button", result |-> result, from |-> from,
   screen |-> screen]

\* handle_back_button
handle_back_button ==
  /\ UNCHANGED store
  /\ LET current_state == IF "state" \in user_data.keys THEN user_data.state
                          ELSE "main_menu"
         previous_state == get_previous_state(current_state)
         cleared == clear_user_state(user_data)
     IN IF current_state = "main_menu"
        THEN /\ user_data' = user_data
             /\ outcome' = BackOutcome("stay", current_state, "main_menu")
        ELSE /\ user_data' =
                  add_to_history([cleared EXCEPT !.state = previous_state,
                                                 !.keys = @ \cup {"state"}],
                                 previous_state)
             /\ outcome' = BackOutcome("back", current_state,
                                       BackScreen(previous_state))

\* handle_message: the text is Back or Cancel; the administrator presses
\* them only while the history holds fewer than MaxHistory entries
press_back_button ==
  /\ Len(user_data.navigation_history) < MaxHistory
  /\ handle_back_button

----------------------------------------------------------------------------
(* The rows bot.db holds when the process starts *)

\* numbers of task rows the file can hold at the start
StoredTaskCounts == {0, 1, 2}

\* creation times of n stored tasks: never decreasing, equal within a second
StoredCreatedAt(n) ==
  {f \in [1..n -> 1..n] :
     /\ n > 0 => f[1] = 1
     /\ \A i \in 1..(n - 1) : f[i + 1] \in {f[i], f[i] + 1}}

\* the stored tasks carry one text, so that a reply can have several
\* candidates
StoredTasks ==
  UNION {{[i \in 1..n |-> TaskRow(tx, ca[i])] :
            tx \in Texts, ca \in StoredCreatedAt(n)} :
         n \in StoredTaskCounts}

StoredGroups == {<<"G", "H">>}

\* members of the stored groups: none; G with both chats and H with the
\* first; G and H with one chat each
StoredMemberships ==
  { {}, {<<1, 1>>, <<1, 2>>, <<2, 1>>}, {<<1, 1>>, <<2, 2>>} }

AllChats == [c \in ChatIds |-> ChatRow(ChatTitle(c))]

NoRows == [p \in {} |-> RecipientRow(NoGroup)]

\* a new file: no rows at all
NewFile ==
  /\ chats = [c \in {} |-> ChatRow(ChatTitle(c))]
  /\ tasks = <<>> /\ task_recipients = NoRows
  /\ chat_groups = <<>> /\ group_chats = {}

\* a file with chats, tasks and their recipients; the stored tasks were
\* sent to the same chats, and the sends of the newest may all have failed
FileWithTasks ==
  /\ chats = AllChats
  /\ tasks \in StoredTasks
  /\ task_recipients \in
       {[p \in S \X P |-> RecipientRow(NoGroup)] :
          S \in {TaskIds, TaskIds \ {Len(tasks)}}, P \in SUBSET ChatIds}
  /\ chat_groups = <<>> /\ group_chats = {}

\* a file with chats, chat groups and their members
FileWithGroups ==
  /\ chats = AllChats
  /\ tasks = <<>> /\ task_recipients = NoRows
  /\ chat_groups \in StoredGroups
  /\ group_chats \in StoredMemberships

Init ==
  /\ NewFile \/ FileWithTasks \/ FileWithGroups
  /\ task_media = <<>>
  /\ response_media = {}
  /\ user_data = EmptyUserData
  /\ outcome = AdminOutcome("start", "none")

Next ==
  \/ \E c \in ChatIds, m \in BotMessages : handle_message_reply(c, m)
  \/ \E c \in ChatIds, m \in BotMessages, ft \in FileTypes :
       handle_media_message_reply(c, m, ft)
  \/ \E c \in ChatIds, m \in BotMessages : handle_message_reply_fails(c, m)
  \/ \E c \in ChatIds, m \in BotMessages, ft \in FileTypes :
       handle_media_message_reply_fails(c, m, ft)
  \/ \E p \in DOMAIN task_recipients : update_task_status(p[1], p[2])
  \/ menu_new_task
  \/ show_active_tasks
  \/ \E t \in TypedTexts : handle_task_text(t)
  \/ \E ft \in FileTypes : handle_media_message_attach(ft)
  \/ handle_task_text_choose
  \/ \E choice \in {"group", "chat"} : handle_recipient_type(choice)
  \/ \E ti \in GroupNames \cup {ChatTitle(c) : c \in ChatIds} :
       handle_recipient_selection_toggle(ti)
  \/ handle_recipient_selection_confirm
  \/ \E u \in Users, c \in ChatIds :
       \E ti \in ChatTitles(c) : add_chat_command(u, c, ti)
  \/ \E u \in Users : handle_message_not_admin(u)
  \/ \E u \in Users : handle_media_message_not_admin(u)
  \/ \E u \in Users : start_command(u)

Spec == Init /\ [][Next]_vars

\* the administrator's dialogue on its own: replies read and write neither
\* the session nor the groups and their members
AdminInit == Init /\ tasks = <<>>

AdminNext ==
  \/ menu_new_task
  \/ \E t \in TypedTexts : handle_task_text(t)
  \/ \E ft \in FileTypes : handle_media_message_attach(ft)
  \/ handle_task_text_choose
  \/ \E choice \in {"group", "chat"} : handle_recipient_type(choice)
  \/ \E ti \in GroupNames \cup {ChatTitle(c) : c \in ChatIds} :
       handle_recipient_selection_toggle(ti)
  \/ handle_recipient_selection_confirm
  \/ \E u \in Users, c \in ChatIds :
       \E ti \in ChatTitles(c) : add_chat_command(u, c, ti)
  \/ start_create_chat_group
  \/ \E n \in TypedGroupNames : handle_group_name(n)
  \/ \E c \in ChatIds :
       \E ti \in ChatTitles(c) : handle_chat_selection_for_group_toggle(ti)
  \/ handle_chat_selection_for_group_finish
  \/ press_back_button
  \/ menu_main_menu

AdminSpec == AdminInit /\ [][AdminNext]_vars

\* the chat selection for a group on its own: the session of the group
\* dialogue holds the id of a stored group, and the second chat is not yet a
\* member of the first group
MembershipInit ==
  /\ chats = AllChats
  /\ tasks = <<>> /\ task_recipients = NoRows
  /\ chat_groups \in StoredGroups
  /\ group_chats \in SUBSET ((GroupIds \X ChatIds) \ {<<1, 2>>})
  /\ task_media = <<>>
  /\ response_media = {}
  /\ \E group_id \in GroupIds :
       /\ user_data =
            [EmptyUserData EXCEPT
               !.keys = {"state", "navigation_history", "current_group_id"},
               !.state = "adding_chats_to_group",
               !.navigation_history = <<"creating_chat_group">>,
               !.current_group_id = group_id]
       /\ outcome = GroupOutcome("handle_group_name", "created",
                                 chat_groups[group_id], group_id, {})

MembershipNext ==
  \/ \E c \in ChatIds :
       \E ti \in ChatTitles(c) : handle_chat_selection_for_group_toggle(ti)
  \/ handle_chat_selection_for_group_finish
  \/ menu_new_task
  \/ \E t \in TypedTexts : handle_task_text(t)
  \/ handle_task_text_choose
  \/ \E choice \in {"group", "chat"} : handle_recipient_type(choice)
  \/ \E ti \in GroupNames \cup {ChatTitle(c) : c \in ChatIds} :
       handle_recipient_selection_toggle(ti)
  \/ handle_recipient_selection_confirm

MembershipSpec == MembershipInit /\ [][MembershipNext]_vars

\* a text reply of a chat to an announcement it was sent, accepted
AcceptedReply ==
  \E c \in ChatIds, t \in AnnouncedTexts :
    /\ handle_message_reply(c, Announcement(t))
    /\ outcome'.result = "accepted"

\* the recipient chats go on replying to their announcements: a reply that
\* would be accepted does not stay unsent for ever
RepliesArrive == WF_vars(AcceptedReply)

\* the runs that start with at most one stored task
FairInit == Init /\ Len(tasks) <= 1

FairSpec == FairInit /\ [][Next]_vars /\ RepliesArrive

----------------------------------------------------------------------------
(* Extraction from task blocks, on its own *)

\* lines that follow the heading of a task block: text, an empty line, the
\* recipients heading, the heading after a blank, a line that starts with
\* the recipients heading and names a task block, a recipient
BlockLineKinds ==
  { <<"a">>, <<>>, <<MarkRcpt>>, <<" ", MarkRcpt>>, <<MarkRcpt, MarkBlock>>,
    <<"r">> }

\* lines after the heading in one block
MaxBlockLines == 3

\* show_active_tasks: a block is its heading and the lines that follow it
BlockMessages ==
  UNION {{JoinLines(<<<<MarkBlock>>>> \o ls) : ls \in [1..n -> BlockLineKinds]} :
         n \in 0..MaxBlockLines}

ExtractInit ==
  /\ NewFile
  /\ task_media = <<>>
  /\ response_media = {}
  /\ user_data = EmptyUserData
  /\ outcome \in {[handler |-> "reply_to_message", result |-> "given",
                    message |-> m, text |-> <<>>] : m \in BlockMessages}

\* handle_media_message, reply branch, up to the extracted text
extract_from_block ==
  /\ outcome.handler = "reply_to_message"
  /\ LET extracted == extract_task_text_media(outcome.message)
     IN outcome' = [handler |-> "extract_task_text_media",
                    result |-> IF extracted.ok THEN "extracted" ELSE "failed",
                    message |-> outcome.message, text |-> extracted.text]
  /\ UNCHANGED <<store, user_data>>

ExtractNext == extract_from_block

ExtractSpec == ExtractInit /\ [][ExtractNext]_vars

----------------------------------------------------------------------------
(* Rendering a task and extracting its text again *)

MarkFiles == "FILES:"

\* show_active_tasks: the message of one active task with its files and one
\* pending recipient
block_message(text, media_files) ==
  JoinLines(<< <<MarkBlock>>, text \o <<"\n">> >>
            \o (IF media_files = <<>> THEN <<>>
                ELSE << <<MarkFiles>> >>
                     \o [i \in 1..Len(media_files) |-> <<"i", " ", media_files[i]>>]
                     \o << <<>> >>)
            \o << <<MarkRcpt>>, <<"r">>, <<"\n", "c", "\n">> >>)

\* characters of a task text
TextChars == {"a", " ", "\n"}

\* length of a task text
MaxTextLen == 3

\* task texts: a letter with blanks and line breaks around it
StoredTexts ==
  {s \in UNION {[1..n -> TextChars] : n \in 1..MaxTextLen} : contains(s, "a")}

RenderInit ==
  /\ NewFile
  /\ task_media = <<>>
  /\ response_media = {}
  /\ user_data = EmptyUserData
  /\ outcome \in {[handler |-> "task", result |-> "stored", text |-> s,
                    media_files |-> mf, message |-> <<>>, extracted |-> <<>>,
                    matches |-> FALSE] :
                     s \in StoredTexts, mf \in {<<>>, <<"photo">>}}

\* the outcome of a reply of the given kind to the given message of the task
Extraction(handler, message, extracted, matches) ==
  [outcome EXCEPT !.handler = handler,
                  !.result = IF extracted.ok THEN "extracted" ELSE "failed",
                  !.message = message,
                  !.extracted = extracted.text,
                  !.matches = extracted.ok /\ matches]

\* handle_message: a text reply to the announcement of the task
reply_to_announcement ==
  /\ outcome.handler = "task"
  /\ LET message == Announcement(outcome.text)
         extracted == extract_task_text(message)
     IN outcome' = Extraction("handle_message", message, extracted,
                              strip(outcome.text) = extracted.text)
  /\ UNCHANGED <<store, user_data>>

\* handle_media_message: a file sent in reply to the announcement of the task
media_reply_to_announcement ==
  /\ outcome.handler = "task"
  /\ LET message == Announcement(outcome.text)
         extracted == extract_task_text_media(message)
     IN outcome' = Extraction("handle_media_message", message, extracted,
                              outcome.text = extracted.text)
  /\ UNCHANGED <<store, user_data>>

\* handle_message: a text reply to the message show_active_tasks sent
reply_to_block ==
  /\ outcome.handler = "task"
  /\ LET message == block_message(outcome.text, outcome.media_files)
         extracted == extract_task_text(message)
     IN outcome' = Extraction("handle_message", message, extracted,
                              strip(outcome.text) = extracted.text)
  /\ UNCHANGED <<store, user_data>>

\* handle_media_message: a file sent in reply to the message
\* show_active_tasks sent
media_reply_to_block ==
  /\ outcome.handler = "task"
  /\ LET message == block_message(outcome.text, outcome.media_files)
         extracted == extract_task_text_media(message)
     IN outcome' = Extraction("handle_media_message", message, extracted,
                              outcome.text = extracted.text)
  /\ UNCHANGED <<store, user_data>>

RenderNext ==
  \/ reply_to_announcement
  \/ media_reply_to_announcement
  \/ reply_to_block
  \/ media_reply_to_block

RenderSpec == RenderInit /\ [][RenderNext]_vars

----------------------------------------------------------------------------
(* Properties *)

ReplyHandlers == {"handle_message", "handle_media_message"}

CompletionHandlers == ReplyHandlers \cup {"update_task_status"}

IsCompleted(recips, p) == recips[p].status = "completed"

CompletedPairs(recips) == {p \in DOMAIN recips : IsCompleted(recips, p)}

\* the pair is a pending recipient of an active task
IsOpen(t, c) ==
  /\ t \in TaskIds
  /\ <<t, c>> \in DOMAIN task_recipients
  /\ task_recipients[<<t, c>>].status = "pending"
  /\ tasks[t].status = "active"

\* C1: a task that has recipients is completed exactly when all of its
\* recipients are completed; so the step that completes the last pending
\* recipient leaves the task completed
C1_CompletedIffAllRecipients ==
  \A t \in TaskIds :
    RecipientsOf(task_recipients, t) # {} =>
      (tasks[t].status = "completed"
         <=> \A p \in RecipientsOf(task_recipients, t) :
               IsCompleted(task_recipients, p))

\* a reply has just completed the last of several recipients of a task
C1_Witness ==
  /\ outcome.handler \in ReplyHandlers
  /\ outcome.result = "accepted"
  /\ tasks[outcome.task].status = "completed"
  /\ Cardinality(RecipientsOf(task_recipients, outcome.task)) >= 2

C3_ReturnedIdIsInsertedRow ==
  (outcome.handler = "handle_recipient_selection"
     /\ outcome.result \in {"report", "error"})
    => /\ outcome.task_id = Len(tasks)
       /\ tasks[outcome.task_id].text = outcome.task_text

\* C4: a completion is reported as success only for a pair that was pending
\* on an active task; every other completion ends in an error and changes no
\* recipient, task or response-media row; update_task_status does not return
\* normally for a pair that is not open
C4_ClosedPairRejected ==
  [][outcome'.handler \in CompletionHandlers =>
       /\ outcome'.result \in {"accepted", "returned"}
            => IsOpen(outcome'.task, outcome'.chat)
       /\ outcome'.result \notin {"accepted", "returned"}
            => /\ UNCHANGED <<tasks, task_recipients, response_media>>
               /\ outcome'.result \in {"not_found", "bad_format",
                                       "unregistered", "error"}
       /\ \A p \in CompletedPairs(task_recipients) :
            /\ task_recipients'[p] = task_recipients[p]
            /\ \A ft \in FileTypes :
                 <<p[1], p[2], ft>> \in response_media'
                   <=> <<p[1], p[2], ft>> \in response_media
    ]_vars

\* a chat has replied again to the announcement of a task it had completed,
\* and the reply was rejected
C4_Witness ==
  /\ outcome.handler \in ReplyHandlers
  /\ outcome.result = "not_found"
  /\ \E t \in TaskIds :
       /\ <<t, outcome.chat>> \in CompletedPairs(task_recipients)
       /\ strip(tasks[t].text) = outcome.text

\* C5: rows are never deleted and a status only changes from pending to
\* completed (recipient) or from active to completed (task)
C5_StatusMonotone ==
  [][/\ \A p \in DOMAIN task_recipients :
          /\ p \in DOMAIN task_recipients'
          /\ task_recipients'[p].status
               \in {task_recipients[p].status, "completed"}
          /\ task_recipients[p].status \in {"pending", "completed"}
     /\ \A t \in TaskIds :
          /\ t \in DOMAIN tasks'
          /\ tasks'[t].status \in {tasks[t].status, "completed"}
          /\ tasks[t].status \in {"active", "completed"}
    ]_vars

\* a reply was accepted while another recipient of the same task was
\* already completed
C5_Witness ==
  /\ outcome.handler \in ReplyHandlers
  /\ outcome.result = "accepted"
  /\ \E p \in CompletedPairs(task_recipients) :
       p[1] = outcome.task /\ p[2] # outcome.chat

\* C6: after a fan-out that ended with its report, the recipients of the new
\* task are exactly the chats whose send succeeded, all pending, and the
\* report counts the successes and the attempts
C6_RecipientsAreDelivered ==
  (outcome.handler = "handle_recipient_selection" /\ outcome.result = "report")
    => /\ {p[2] : p \in RecipientsOf(task_recipients, Len(tasks))}
            = outcome.delivered
       /\ \A p \in RecipientsOf(task_recipients, Len(tasks)) :
            task_recipients[p].status = "pending"
       /\ outcome.success_count = Cardinality(outcome.delivered)
       /\ outcome.total_count = Cardinality(outcome.resolved)

\* C7: a fan-out always ends with its report, after a send attempt to every
\* chat of the resolved list
C7_FanOutNeverAborts ==
  (outcome.handler = "handle_recipient_selection"
     /\ outcome.result \in {"report", "error"})
    => /\ outcome.result = "report"
       /\ outcome.attempted = outcome.resolved

\* C8: in one fan-out no chat is sent the task twice, and add_task_recipient
\* is not called for a pair that exists
C8_EachChatOnce ==
  (outcome.handler = "handle_recipient_selection"
     /\ outcome.result \in {"report", "error"})
    => /\ ~outcome.sent_twice
       /\ outcome.result # "error"

\* C9: in both reply handlers a reply is matched exactly when a pending
\* recipient of the chat on an active task has a text equal to the extracted
\* text after trimming both
C9_TrimmedEqualityDecides ==
  (outcome.handler \in ReplyHandlers) =>
    /\ outcome.result = "not_found"
         => ~\E t \in TaskIds :
               /\ IsOpen(t, outcome.chat)
               /\ strip(tasks[t].text) = strip(outcome.text)
    /\ outcome.result = "accepted"
         => strip(tasks[outcome.task].text) = strip(outcome.text)

\* C10: among the pending recipients of the chat on active tasks with the
\* same text, a reply completes the one of the most recently created task
C10_NewestTaskWins ==
  (outcome.handler \in ReplyHandlers /\ outcome.result = "accepted")
    => ~\E u \in TaskIds :
          /\ u > outcome.task
          /\ IsOpen(u, outcome.chat)
          /\ tasks[u].text = tasks[outcome.task].text

\* C11: an accepted reply of chat c changes exactly one recipient row, the
\* row of the matched task for c; every other recipient row and every other
\* task row stays as it was, and no row is added or removed
C11_AcceptedReplyFrame ==
  [][(outcome'.handler \in ReplyHandlers /\ outcome'.result = "accepted") =>
       LET p == <<outcome'.task, outcome'.chat>> IN
       /\ p \in DOMAIN task_recipients
       /\ DOMAIN task_recipients' = DOMAIN task_recipients
       /\ task_recipients'[p] # task_recipients[p]
       /\ \A q \in DOMAIN task_recipients \ {p} :
            task_recipients'[q] = task_recipients[q]
       /\ Len(tasks') = Len(tasks)
       /\ \A u \in TaskIds \ {outcome'.task} : tasks'[u] = tasks[u]
    ]_vars

\* a reply was accepted while the chat is pending on another task and the
\* other chat is pending on the matched task
C11_Witness ==
  /\ outcome.handler \in ReplyHandlers
  /\ outcome.result = "accepted"
  /\ \E u \in TaskIds \ {outcome.task} : IsOpen(u, outcome.chat)
  /\ \E d \in ChatIds \ {outcome.chat} : IsOpen(outcome.task, d)

\* C12: a reply with an extracted text that matches no pending recipient of
\* the replying chat on an active task, or a text reply of an unregistered
\* chat, is answered with a not-found outcome and changes no task, recipient
\* or response-media row
C12_NoMatchNotFound ==
  [][(/\ outcome'.handler \in ReplyHandlers
      /\ outcome'.result # "bad_format"
      /\ \/ ~\E t \in TaskIds :
              /\ IsOpen(t, outcome'.chat)
              /\ strip(tasks[t].text) = strip(outcome'.text)
         \/ (outcome'.handler = "handle_message"
               /\ outcome'.chat \notin DOMAIN chats))
       => /\ outcome'.result \in {"not_found", "unregistered"}
          /\ UNCHANGED <<tasks, task_recipients, response_media>>
    ]_vars

\* a file sent in reply to the announcement of a text that is not the text
\* of the chat's open task was answered with not-found
C12_Witness ==
  /\ outcome.handler = "handle_media_message"
  /\ outcome.result = "not_found"
  /\ \E t \in TaskIds : IsOpen(t, outcome.chat)
  /\ \A t \in TaskIds : IsOpen(t, outcome.chat)
                          => strip(tasks[t].text) # strip(outcome.text)

\* C13: the completion sequence is all or nothing: a reply or a call of
\* update_task_status that ends with an exception leaves every recipient,
\* task and response-media row as it was before
C13_FailedCompletionRollsBack ==
  [][(outcome'.handler \in CompletionHandlers /\ outcome'.result = "error")
       => UNCHANGED <<tasks, task_recipients, response_media>>
    ]_vars

\* a media reply to an open task failed after statements of its sequence
\* had been executed, and the pair is still open with no response media
C13_Witness ==
  /\ outcome.handler = "handle_media_message"
  /\ outcome.result = "error"
  /\ outcome.failed_at \in {"recount", "update_task"}
  /\ IsOpen(outcome.task, outcome.chat)
  /\ \A ft \in FileTypes : <<outcome.task, outcome.chat, ft>> \notin response_media

\* C14: a task is stored together with its files or not at all: a fan-out
\* that ends with an exception, at a file insert or at a later insert,
\* leaves no task row and no file row it wrote
C14_CreationAllOrNothing ==
  [][(outcome'.handler = "handle_recipient_selection"
        /\ outcome'.result \in {"media_error", "error"})
       => UNCHANGED <<tasks, task_media>>
    ]_vars

\* C15: the recipient rows of a task are created in the step that creates
\* the task, as pending rows of that task while it is active; so no row is
\* registered as pending on a task that is already completed
C15_RecipientsCreatedWithTask ==
  [][\A p \in DOMAIN task_recipients' \ DOMAIN task_recipients :
       /\ Len(tasks') = Len(tasks) + 1
       /\ p[1] = Len(tasks')
       /\ tasks'[p[1]].status = "active"
       /\ task_recipients'[p].status = "pending"
    ]_vars

\* C16: when the recipient chats go on replying to their announcements,
\* from some point on no registered recipient is pending and every task
\* with a recipient is completed
C16_EveryRecipientCompletes ==
  <>[](/\ \A p \in DOMAIN task_recipients :
            task_recipients[p].status = "completed"
       /\ \A t \in TaskIds :
            RecipientsOf(task_recipients, t) # {}
              => tasks[t].status = "completed")

\* C17: a completed task has at least one recipient, and the task of a
\* fan-out that has just registered no recipient is active
C17_CompletedHasRecipient ==
  /\ \A t \in TaskIds :
       tasks[t].status = "completed" => RecipientsOf(task_recipients, t) # {}
  /\ (outcome.handler = "handle_recipient_selection"
        /\ outcome.result = "report" /\ outcome.delivered = {})
       => tasks[Len(tasks)].status = "active"

\* a fan-out has just reported that none of its sends succeeded
C17_Witness ==
  /\ outcome.handler = "handle_recipient_selection"
  /\ outcome.result = "report"
  /\ outcome.resolved # {}
  /\ outcome.delivered = {}
  /\ tasks[Len(tasks)].status = "active"

\* C18: in both reply handlers the extraction of the task text fails only
\* for a replied-to message that is neither an announcement nor a task block
C18_FailsOnlyWithoutShape ==
  (outcome.handler \in ReplyHandlers /\ outcome.result = "bad_format")
    => /\ ~contains(outcome.message, MarkNew)
       /\ ~contains(outcome.message, MarkBlock)

\* the lines before line k of a block that are text: not the heading, not
\* blank; each without the blanks around it
TextLinesBefore(lines, k) ==
  LET IsText(l) == strip(l) # <<>> /\ ~contains(l, MarkBlock)
      kept == SelectSeq(SubSeq(lines, 1, k - 1), IsText)
  IN [i \in 1..Len(kept) |-> strip(kept[i])]

\* the first of the line numbers S, or one past the last of n lines
FirstLine(S, n) ==
  IF S = {} THEN n + 1 ELSE CHOOSE i \in S : \A j \in S : i <= j

\* C19 as stated: the text extracted from a task block is made of the lines
\* before the first line that starts with the recipients heading
C19_StopsAtFirstMarkerLine ==
  outcome.handler = "extract_task_text_media" =>
    LET lines == SplitLines(outcome.message)
        marked == {i \in 1..Len(lines) : startswith(lines[i], MarkRcpt)}
    IN outcome.text
         = JoinLines(TextLinesBefore(lines, FirstLine(marked, Len(lines))))

\* C19: the text extracted from a task block is made of the lines before the
\* first line that starts with the recipients heading and does not itself
\* name a task block; no line at or after that line is part of the text
C19_StopsAtRecipientsHeading ==
  outcome.handler = "extract_task_text_media" =>
    LET lines == SplitLines(outcome.message)
        headings == {i \in 1..Len(lines) :
                       /\ startswith(lines[i], MarkRcpt)
                       /\ ~contains(lines[i], MarkBlock)}
    IN outcome.text
         = JoinLines(TextLinesBefore(lines, FirstLine(headings, Len(lines))))

\* a block with text, the recipients heading and a recipient line after it
\* has been extracted to the text alone
C19_Witness ==
  /\ outcome.handler = "extract_task_text_media"
  /\ outcome.result = "extracted"
  /\ outcome.message
       = JoinLines(<< <<MarkBlock>>, <<"a">>, <<MarkRcpt>>, <<"r">> >>)
  /\ outcome.text = <<"a">>

\* C20: get_active_tasks has an entry for every active task and for no
\* other, and the recipients of an entry are the recipient rows of its task,
\* each with its stored status
C20_SnapshotOfActiveTasks ==
  outcome.handler = "show_active_tasks" =>
    /\ DOMAIN outcome.tasks = {t \in TaskIds : tasks[t].status = "active"}
    /\ \A t \in DOMAIN outcome.tasks :
         /\ DOMAIN outcome.tasks[t].recipients
              = {p[2] : p \in RecipientsOf(task_recipients, t)}
         /\ \A c \in DOMAIN outcome.tasks[t].recipients :
              outcome.tasks[t].recipients[c].status
                = task_recipients[<<t, c>>].status

\* C21: /addchat for a chat that is registered answers that it is already
\* added and leaves its row as it is, whatever title the chat has now;
\* /addchat for a chat that is not registered adds the row of that chat and
\* no other; in both cases every other row stays as it was
C21_RegisterIsIdempotent ==
  [][(outcome'.handler = "add_chat_command" /\ is_admin(outcome'.sender)) =>
       LET c == outcome'.chat IN
       /\ outcome'.result \in {"already_added", "added"}
       /\ outcome'.result = "already_added" <=> c \in DOMAIN chats
       /\ c \in DOMAIN chats => chats' = chats
       /\ c \notin DOMAIN chats
            => /\ DOMAIN chats' = DOMAIN chats \cup {c}
               /\ \A d \in DOMAIN chats : chats'[d] = chats[d]
    ]_vars

\* the administrator has sent /addchat again in a chat that was registered
\* under its earlier title, and the row holds the earlier title
C21_Witness ==
  /\ outcome.handler = "add_chat_command"
  /\ outcome.result = "already_added"
  /\ chats[outcome.chat].title = RenamedTitle
  /\ \E d \in DOMAIN chats : chats[d].title = ChatTitle(d)

UniqueNames(groups) ==
  \A g, h \in 1..Len(groups) : groups[g] = groups[h] => g = h

\* C22: a typed group name that is the name of a stored group, letter for
\* letter, is rejected: no row of any table and nothing in the session
\* changes, and the session stays in the step that asks for the name; every
\* other name is stored as a new group; no two groups have the same name
C22_DuplicateNameRejected ==
  [][outcome'.handler = "handle_group_name" =>
       /\ (\E g \in GroupIds : chat_groups[g] = outcome'.group_name)
            => /\ outcome'.result = "duplicate_name"
               /\ UNCHANGED <<store, user_data>>
               /\ user_data'.state = "creating_chat_group"
       /\ (\A g \in GroupIds : chat_groups[g] # outcome'.group_name)
            => /\ outcome'.result \in {"created", "no_chats"}
               /\ chat_groups' = Append(chat_groups, outcome'.group_name)
       /\ UniqueNames(chat_groups) /\ UniqueNames(chat_groups')
    ]_vars

\* the name of a group that was created beside a group whose name differs
\* from it in case only has been typed again and was rejected
C22_Witness ==
  /\ outcome.handler = "handle_group_name"
  /\ outcome.result = "duplicate_name"
  /\ \E g, h \in GroupIds :
       /\ chat_groups[g] = outcome.group_name
       /\ chat_groups[h] # outcome.group_name
       /\ LowerCase(chat_groups[h]) = LowerCase(outcome.group_name)
  /\ user_data.state = "creating_chat_group"

\* C23: the group id the session holds after a group was created is the id
\* of the row that was inserted, and after the selection was confirmed the
\* members of that group are exactly the selected chats
C23_SelectedChatsJoinNewGroup ==
  /\ (outcome.handler = "handle_group_name"
        /\ outcome.result \in {"created", "no_chats"})
       => /\ outcome.group_id = Len(chat_groups)
          /\ chat_groups[outcome.group_id] = outcome.group_name
  /\ (outcome.handler = "handle_chat_selection_for_group"
        /\ outcome.result = "filled")
       => /\ outcome.group_id = Len(chat_groups)
          /\ get_group_chats(outcome.group_id) = outcome.selected

\* C25: a step of the chat selection for a group id that names no group is
\* answered with group-not-found and writes no membership row, and every
\* membership row names a stored group and a stored chat
C25_UnknownIdsRejected ==
  [][/\ (outcome'.handler = "handle_chat_selection_for_group"
           /\ outcome'.group_id \notin GroupIds)
          => /\ outcome'.result = "group_not_found"
             /\ group_chats' = group_chats
     /\ \A p \in group_chats' : p[1] \in 1..Len(chat_groups')
                                 /\ p[2] \in DOMAIN chats'
    ]_vars

\* the administrator has ended the selection in a session whose group id
\* names no group, beside groups that have members
C25_Witness ==
  /\ outcome.handler = "handle_chat_selection_for_group"
  /\ outcome.result = "group_not_found"
  /\ outcome.group_id \notin GroupIds
  /\ group_chats # {}
  /\ user_data.state = "adding_chats_to_group"

\* C24: ending the selection adds the selected chats to the group and raises
\* no error when some of them are members already; when all of them are
\* members already, the memberships stay as they were
C24_AddMemberIsIdempotent ==
  [][(outcome'.handler = "handle_chat_selection_for_group"
        /\ outcome'.result \in {"filled", "error"}) =>
       /\ outcome'.result = "filled"
       /\ group_chats' = group_chats
            \cup {<<outcome'.group_id, c>> : c \in outcome'.selected}
       /\ outcome'.members_before = outcome'.selected
            => group_chats' = group_chats
    ]_vars

\* the administrator has confirmed a selection of two chats that were both
\* members of the group before
C24_Witness ==
  /\ outcome.handler = "handle_chat_selection_for_group"
  /\ outcome.result = "filled"
  /\ Cardinality(outcome.selected) = 2
  /\ outcome.members_before = outcome.selected
  /\ \A c \in outcome.selected : <<outcome.group_id, c>> \in group_chats

C27_NoTaskWithoutText ==
  [][/\ \A t \in 1..Len(tasks') : tasks'[t].text # <<>>
     /\ (/\ outcome'.handler = "handle_recipient_selection"
         /\ outcome'.result # "toggled"
         /\ ("task_text" \notin user_data.keys \/ user_data.task_text = <<>>))
          => /\ outcome'.result = "no_text"
             /\ UNCHANGED <<store, user_data>>
    ]_vars

\* the administrator has gone back from the selection of recipients, has
\* chosen the kind of recipients again and has confirmed without a text
C27_Witness ==
  /\ outcome.handler = "handle_recipient_selection"
  /\ outcome.result = "no_text"
  /\ user_data.state = "selecting_recipients"
  /\ "task_text" \notin user_data.keys
  /\ tasks = <<>>

\* C29: after a fan-out every chat that was sent the announcement text has
\* a recipient row under the task id of the fan-out
C29_AnnouncedAreRecipients ==
  (outcome.handler = "handle_recipient_selection"
     /\ outcome.result \in {"report", "error"})
    => \A c \in outcome.announced :
         <<outcome.task_id, c>> \in DOMAIN task_recipients

\* steps a sender other than the administrator can cause: a reply to a
\* message of the bot, which the handlers accept from every sender, and the
\* updates that carry the sender
OtherSenderStep ==
  \/ outcome'.handler \in ReplyHandlers
  \/ /\ outcome'.handler \in {"add_chat_command", "handle_message_text",
                               "handle_media_message_file", "start_command"}
     /\ outcome'.sender # AdminId

\* C28: a step of another sender leaves chats, groups, memberships, task
\* media and the session as they were, adds no task and no recipient, and
\* changes a task, a recipient or the response media only as an accepted
\* reply that completes a pending recipient
C28_OthersOnlyComplete ==
  [][OtherSenderStep =>
       /\ UNCHANGED <<chats, chat_groups, group_chats, task_media, user_data>>
       /\ Len(tasks') = Len(tasks)
       /\ \A t \in TaskIds :
            tasks'[t] \in {tasks[t], [tasks[t] EXCEPT !.status = "completed"]}
       /\ DOMAIN task_recipients' = DOMAIN task_recipients
       /\ <<tasks, task_recipients, response_media>>
             # <<tasks', task_recipients', response_media'>>
            => /\ outcome'.handler \in ReplyHandlers
               /\ outcome'.result = "accepted"
               /\ IsOpen(outcome'.task, outcome'.chat)
               /\ task_recipients'
                    = CompleteRecipient(task_recipients, outcome'.task,
                                        outcome'.chat)
    ]_vars

\* somebody else has sent /addchat in a chat that is not registered, while
\* the administrator was writing a task, and nothing was registered
C28_Witness ==
  /\ outcome.handler = "add_chat_command"
  /\ outcome.result = "ignored"
  /\ outcome.sender # AdminId
  /\ outcome.chat \notin DOMAIN chats
  /\ user_data.state = "awaiting_task_text"

\* C30: the text extracted from the announcement of a task, and from the
\* message show_active_tasks sends for it, matches the stored text of the
\* task under the comparison of the handler that extracts it
C30_ExtractionInvertsRendering ==
  outcome.handler \in ReplyHandlers => outcome.matches

----------------------------------------------------------------------------
(* Response media *)

\* the (task, chat) pair a response-media row names
MediaPair(row) == <<row[1], row[2]>>

\* C31: every response-media row names a stored TaskRecipient whose status
\* is completed; rows are only added, by an accepted media reply, for the
\* pair that this step completes, and a media reply that is rejected (no
\* task text, no open task, or an exception) leaves the table as it was
C31_ResponseMediaOfCompleted ==
  /\ [](\A row \in response_media :
          /\ MediaPair(row) \in DOMAIN task_recipients
          /\ task_recipients[MediaPair(row)].status = "completed")
  /\ [][/\ response_media \subseteq response_media'
        /\ response_media' # response_media =>
             /\ outcome'.handler = "handle_media_message"
             /\ outcome'.result = "accepted"
             /\ \A row \in response_media' \ response_media :
                  /\ MediaPair(row) = <<outcome'.task, outcome'.chat>>
                  /\ task_recipients[MediaPair(row)].status # "completed"
                  /\ task_recipients'[MediaPair(row)].status = "completed"
        /\ (/\ outcome'.handler = "handle_media_message"
            /\ outcome'.result # "accepted"
            /\ outcome' # outcome) => UNCHANGED response_media
       ]_vars

\* a media reply was accepted and its row is stored, while another pair of
\* the same task is still open
C31_Witness ==
  /\ outcome.handler = "handle_media_message"
  /\ outcome.result = "accepted"
  /\ \E row \in response_media :
       /\ MediaPair(row) = <<outcome.task, outcome.chat>>
       /\ \E p \in DOMAIN task_recipients :
            p[1] = row[1] /\ task_recipients[p].status # "completed"

----------------------------------------------------------------------------
(* What a creation flow leaves in the session *)

\* the session keys of a task that is being created
TaskFlowKeys ==
  {"task_text", "media_files", "selection_type", "selected_titles"}

HoldsNoTaskData(ud) ==
  /\ ud.keys \cap TaskFlowKeys = {}
  /\ ud.task_text = <<>> /\ ud.media_files = <<>>
  /\ ud.selection_type = "" /\ ud.selected_titles = {}

\* the press of this step was a confirm that created a task
ConfirmCreatedTask ==
  outcome'.handler = "handle_recipient_selection" /\ tasks' # tasks

\* the press of this step was Back or Cancel outside the main menu
BackPressed ==
  outcome'.handler = "handle_back_button" /\ outcome'.result = "back"

MainMenuPressed == outcome'.handler = "handle_message_main_menu"

\* C32: the task a confirm creates has the text of the session, and the
\* files stored for it are files of the session in their order; after a
\* confirm that created a task, after Back or Cancel and after "Главное
\* меню" the session holds no task text, no media list and no selection
C32_FlowDataLeavesWithFlow ==
  [][/\ ConfirmCreatedTask =>
          /\ tasks' = Append(tasks, tasks'[Len(tasks')])
          /\ tasks'[Len(tasks')].text = user_data.task_text
          /\ \E n \in 0..Len(user_data.media_files) :
               task_media' = task_media \o
                 [i \in 1..n |-> [task_id |-> task_media'[Len(task_media')].task_id,
                                  file_type |-> user_data.media_files[i]]]
     /\ (ConfirmCreatedTask \/ BackPressed \/ MainMenuPressed)
          => HoldsNoTaskData(user_data')
    ]_vars

----------------------------------------------------------------------------
(* Screens and states *)

\* the screen that belongs to a session state; an unset state counts as the
\* main menu
ScreenOf(state) ==
  IF state \in {"main_menu", ""} THEN "main_menu" ELSE state

\* C33: after a Back or Cancel press the screen that was shown is the screen
\* of the state the session now holds; the main-menu keyboard in particular
\* is shown only when the state is main_menu or unset
C33_BackShowsStateScreen ==
  outcome.handler = "handle_back_button"
    => outcome.screen = ScreenOf(user_data.state)

\* C34: while the session state is choosing_recipient_type or
\* selecting_recipients, the session holds a task text
C34_RecipientStatesHoldText ==
  user_data.state \in {"choosing_recipient_type", "selecting_recipients"}
    => /\ "task_text" \in user_data.keys
       /\ user_data.task_text # <<>>

----------------------------------------------------------------------------
(* Back from every state *)

\* the states get_previous_state names, and one it does not know
SessionStates ==
  {"main_menu", "awaiting_task_text", "choosing_recipient_type",
   "selecting_recipients", "creating_chat_group", "adding_chats_to_group",
   "settings", "statistics", "viewing_tasks", "viewing_chats", "unknown"}

\* sessions in state s: the state is the last entry of the history, and a
\* task text and a file may have been entered
BackSessionsIn(s) ==
  {[EmptyUserData EXCEPT
      !.state = s, !.navigation_history = before \o <<s>>,
      !.task_text = text, !.media_files = files,
      !.keys = {"state", "navigation_history"}
                 \cup (IF text = <<>> THEN {} ELSE {"task_text"})
                 \cup (IF files = <<>> THEN {} ELSE {"media_files"})] :
     before \in {<<>>, <<"settings">>, <<"viewing_tasks">>} \ {<<s>>},
     text \in {<<>>} \cup TypedTexts,
     files \in {<<>>, <<"photo">>}}

BackSessions ==
  UNION {BackSessionsIn(s) : s \in SessionStates} \cup {EmptyUserData}

BackInit ==
  /\ NewFile
  /\ task_media = <<>>
  /\ response_media = {}
  /\ user_data \in BackSessions
  /\ outcome = AdminOutcome("start", "none")

BackNext == handle_back_button

\* the administrator goes on pressing Back
BackSpec == BackInit /\ [][BackNext]_vars /\ WF_vars(handle_back_button)

\* the number of Back presses the state is away from the main menu
BackDistance(state) ==
  CASE state \in {"main_menu", ""} -> 0
    [] state = "selecting_recipients" -> 3
    [] state \in {"choosing_recipient_type", "adding_chats_to_group"} -> 2
    [] OTHER -> 1

\* C35: a Back press in the main menu (or with no state) leaves the state as
\* it is, a Back press in any other state leads to a state that is nearer
\* to the main menu, which is at most 3 presses away, and an unknown state
\* leads to the main menu at once; so the presses never cycle, and pressing
\* on ends in the main menu
C35_BackReachesMainMenu ==
  /\ [][outcome'.handler = "handle_back_button" =>
          /\ BackDistance(user_data.state) \in 0..3
          /\ IF BackDistance(user_data.state) = 0
             THEN user_data'.state = user_data.state
             ELSE BackDistance(user_data'.state)
                    = BackDistance(user_data.state) - 1
          /\ user_data.state = "unknown" => user_data'.state = "main_menu"
       ]_vars
  /\ <>[](user_data.state \in {"main_menu", ""})

\* the third Back press after the recipient selection ended in the main menu
C35_Witness ==
  /\ outcome.handler = "handle_back_button"
  /\ outcome.from = "awaiting_task_text"
  /\ user_data.state = "main_menu"
  /\ Len(user_data.navigation_history) >= 4
  /\ LET h == user_data.navigation_history
         n == Len(h)
     IN <<h[n - 3], h[n - 2], h[n - 1], h[n]>> =
          <<"selecting_recipients", "choosing_recipient_type",
            "awaiting_task_text", "main_menu">>

----------------------------------------------------------------------------
(* The navigation history *)

\* states the handlers add to the history
AddedStates == {"main_menu", "awaiting_task_text", "settings"}

\* every call site stores the key 'state' before it calls add_to_history
\* (bot.py:137, 330-350, 1085): the session of a call is never empty
HistoryInit ==
  /\ NewFile
  /\ task_media = <<>>
  /\ response_media = {}
  /\ user_data \in {[EmptyUserData EXCEPT !.state = s, !.keys = {"state"}] :
                      s \in AddedStates}
  /\ outcome = AdminOutcome("start", "none")

\* a handler stores a state and adds it to the history
add_to_history_call(state) ==
  /\ user_data' = add_to_history(
                    [user_data EXCEPT !.state = state,
                                      !.keys = @ \cup {"state"}], state)
  /\ outcome' = [handler |-> "add_to_history", result |-> "returned",
                 state |-> state, before |-> user_data.navigation_history]
  /\ UNCHANGED store

HistoryNext == \E s \in AddedStates : add_to_history_call(s)

HistorySpec == HistoryInit /\ [][HistoryNext]_vars

IsSuffix(s, t) ==
  /\ Len(s) <= Len(t)
  /\ s = SubSeq(t, Len(t) - Len(s) + 1, Len(t))

\* C36: the history never holds more than 10 states and never the same
\* state twice in a row; after a call its last entry is the state that was
\* added, and the history is the old history with that state (if it was
\* not already the last), cut at the front to its last 10 entries
C36_HistoryKeepsNewestTen ==
  LET h == user_data.navigation_history IN
  /\ Len(h) <= 10
  /\ \A i \in 1..(Len(h) - 1) : h[i] # h[i + 1]
  /\ outcome.handler = "add_to_history" =>
       LET added == IF outcome.before # <<>>
                       /\ outcome.before[Len(outcome.before)] = outcome.state
                    THEN outcome.before
                    ELSE Append(outcome.before, outcome.state)
       IN /\ h # <<>> /\ h[Len(h)] = outcome.state
          /\ IsSuffix(h, added)
          /\ Len(added) > 10 => Len(h) = 10
          /\ Len(added) <= 10 => h = added

\* an eleventh state was added and the oldest entry was dropped
C36_Witness ==
  /\ outcome.handler = "add_to_history"
  /\ Len(outcome.before) = 10
  /\ Len(user_data.navigation_history) = 10
  /\ user_data.navigation_history[10] = outcome.state
  /\ user_data.navigation_history[1] = outcome.before[2]
  /\ outcome.before[1] # outcome.before[2]

----------------------------------------------------------------------------
(* Clearing the session *)

\* sessions of the recipient selection and of the chat selection for a group
SelectionSessions ==
  {[EmptyUserData EXCEPT
      !.state = "selecting_recipients",
      !.navigation_history = <<"awaiting_task_text">>,
      !.task_text = text, !.media_files = files,
      !.selection_type = type, !.selected_titles = titles,
      !.keys = {"state", "navigation_history", "selection_type",
                "selected_titles"}
                 \cup (IF text = <<>> THEN {} ELSE {"task_text"})
                 \cup (IF files = <<>> THEN {} ELSE {"media_files"})] :
     text \in {<<>>} \cup TypedTexts, files \in {<<>>, <<"photo">>},
     type \in {"group", "chat"}, titles \in SUBSET {"A", "G"}}
  \cup
  {[EmptyUserData EXCEPT
      !.state = "adding_chats_to_group",
      !.navigation_history = <<"creating_chat_group">>,
      !.selected_chats = selected,
      !.keys = {"state", "navigation_history", "current_group_id",
                "selected_chats"}] :
     selected \in {<<>>, <<1>>, <<1, 2>>}}

ClearInit ==
  /\ NewFile
  /\ task_media = <<>>
  /\ response_media = {}
  /\ user_data \in BackSessions \cup SelectionSessions
  /\ outcome = AdminOutcome("start", "none")

\* a call of clear_user_state on the session
clear_user_state_call ==
  /\ user_data' = clear_user_state(user_data)
  /\ outcome' = [handler |-> "clear_user_state", result |-> "returned",
                 before |-> user_data]
  /\ UNCHANGED store

ClearNext == clear_user_state_call

ClearSpec == ClearInit /\ [][ClearNext]_vars

\* C37: after clear_user_state the session holds, of the keys it held
\* before, exactly 'navigation_history' and 'state', with the values they
\* had, and no other key or value; an empty session is left as it was
C37_ClearKeepsStateAndHistory ==
  outcome.handler = "clear_user_state" =>
    /\ user_data.keys = outcome.before.keys \cap {"navigation_history", "state"}
    /\ user_data.state = outcome.before.state
    /\ user_data.navigation_history = outcome.before.navigation_history
    /\ HoldsNoTaskData(user_data)
    /\ user_data.current_group_id = EmptyUserData.current_group_id
    /\ user_data.selected_chats = <<>>
    /\ outcome.before.keys = {} => user_data = outcome.before

\* a session with a task text, a file and a selection was cleared and has
\* kept its state and its history
C37_Witness ==
  /\ outcome.handler = "clear_user_state"
  /\ {"task_text", "media_files", "selected_titles"} \subseteq outcome.before.keys
  /\ outcome.before.selected_titles # {}
  /\ user_data.state = "selecting_recipients"
  /\ user_data.navigation_history = <<"awaiting_task_text">>
  /\ user_data.keys = {"navigation_history", "state"}

----------------------------------------------------------------------------
(* Selection keyboards *)

\* the selection the session holds, as the set of keyboard entries
SelectedEntries(ud, handler) ==
  IF handler = "handle_recipient_selection" THEN ud.selected_titles
  ELSE SeqToSet(ud.selected_chats)

====
